---- MODULE Spec2Model ----
(***************************************************************************)
(* AirVision (src/app.py): the advisory / forecast-calibration /           *)
(* source-attribution / policy-simulation core of the dashboard.           *)
(*                                                                         *)
(* The functions compute on Python floats and numpy float64 values, so     *)
(* the model carries IEEE-754 binary64 arithmetic: a float is an exact     *)
(* dyadic rational (-1)^s * m * 2^e whose significand m is an arbitrary    *)
(* precision natural number held as a sequence of 15-bit limbs, and every  *)
(* arithmetic operation is the exact operation followed by rounding to 53  *)
(* significant bits, ties to even.  A division by zero yields NaN, which   *)
(* every later operation propagates.  Exponent overflow, subnormals,       *)
(* signed zero and infinities are outside the model: all inputs are drawn  *)
(* from ranges in which they cannot arise.                                 *)
(***************************************************************************)
EXTENDS Integers, Sequences, FiniteSets, TLC

(***************************************************************************)
(* Arbitrary-precision naturals: little-endian limb sequences, no leading  *)
(* (most significant) zero limb; zero is the empty sequence.               *)
(***************************************************************************)
LimbBits == 15
Base == 32768

RECURSIVE BNorm(_)
BNorm(x) ==
  IF x = <<>> THEN x
  ELSE IF x[Len(x)] = 0 THEN BNorm(SubSeq(x, 1, Len(x) - 1)) ELSE x

RECURSIVE BAddC(_, _, _)
BAddC(x, y, c) ==
  IF x = <<>> /\ y = <<>> THEN (IF c = 0 THEN <<>> ELSE <<c>>)
  ELSE LET a == IF x = <<>> THEN 0 ELSE Head(x)
           b == IF y = <<>> THEN 0 ELSE Head(y)
           t == a + b + c
       IN <<t % Base>> \o BAddC(IF x = <<>> THEN x ELSE Tail(x),
                                IF y = <<>> THEN y ELSE Tail(y),
                                t \div Base)

BAdd(x, y) == BAddC(x, y, 0)

\* x - y for x >= y
RECURSIVE BSubC(_, _, _)
BSubC(x, y, c) ==
  IF x = <<>> THEN <<>>
  ELSE LET b == IF y = <<>> THEN 0 ELSE Head(y)
           t == Head(x) - b - c
       IN <<IF t < 0 THEN t + Base ELSE t>>
            \o BSubC(Tail(x), IF y = <<>> THEN y ELSE Tail(y),
                     IF t < 0 THEN 1 ELSE 0)

BSub(x, y) == BNorm(BSubC(x, y, 0))

\* -1, 0, 1 as x < y, x = y, x > y
RECURSIVE BCmpAt(_, _, _)
BCmpAt(x, y, i) ==
  IF i = 0 THEN 0
  ELSE IF x[i] < y[i] THEN -1
  ELSE IF x[i] > y[i] THEN 1
  ELSE BCmpAt(x, y, i - 1)

BCmp(x, y) ==
  IF Len(x) < Len(y) THEN -1
  ELSE IF Len(x) > Len(y) THEN 1
  ELSE BCmpAt(x, y, Len(x))

RECURSIVE BMulSmallC(_, _, _)
BMulSmallC(x, k, c) ==
  IF x = <<>> THEN (IF c = 0 THEN <<>> ELSE <<c>>)
  ELSE LET t == Head(x) * k + c
       IN <<t % Base>> \o BMulSmallC(Tail(x), k, t \div Base)

BMulSmall(x, k) == BNorm(BMulSmallC(x, k, 0))

RECURSIVE BMul(_, _)
BMul(x, y) ==
  IF x = <<>> \/ y = <<>> THEN <<>>
  ELSE BNorm(BAdd(BMulSmall(x, Head(y)), <<0>> \o BMul(x, Tail(y))))

Zeros(n) == [i \in 1..n |-> 0]

\* x * 2^n
BShl(x, n) ==
  IF x = <<>> THEN x
  ELSE Zeros(n \div LimbBits) \o BMulSmall(x, 2 ^ (n % LimbBits))

\* floor(x / k) for a limb-sized k, most significant limb first
RECURSIVE BDivSmallAt(_, _, _, _)
BDivSmallAt(x, k, i, r) ==
  IF i = 0 THEN <<>>
  ELSE LET t == r * Base + x[i]
       IN BDivSmallAt(x, k, i - 1, t % k) \o <<t \div k>>

\* floor(x / 2^n)
BShr(x, n) ==
  LET d == n \div LimbBits
      y == IF d >= Len(x) THEN <<>> ELSE SubSeq(x, d + 1, Len(x))
  IN BNorm(BDivSmallAt(y, 2 ^ (n % LimbBits), Len(y), 0))

RECURSIVE SmallBits(_)
SmallBits(k) == IF k = 0 THEN 0 ELSE 1 + SmallBits(k \div 2)

\* number of significant bits
BBits(x) ==
  IF x = <<>> THEN 0 ELSE LimbBits * (Len(x) - 1) + SmallBits(x[Len(x)])

BOdd(x) == x # <<>> /\ x[1] % 2 = 1

RECURSIVE SmallTz(_)
SmallTz(k) == IF k % 2 = 1 THEN 0 ELSE 1 + SmallTz(k \div 2)

\* number of trailing zero bits of a non-zero x
RECURSIVE BTz(_)
BTz(x) == IF Head(x) = 0 THEN LimbBits + BTz(Tail(x)) ELSE SmallTz(Head(x))

\* floor(n / d) and whether a remainder is left, by binary long division.
\* st = <<remainder so far, quotient so far, next bit position, divisor>>;
\* each step is evaluated once, before the next one starts.
Once(x) == CHOOSE v \in {x} : TRUE

BDivStep(st) ==
  LET t == BShl(st[4], st[3])
  IN IF st[3] < 0 THEN st
     ELSE IF BCmp(t, st[1]) <= 0
     THEN <<BSub(st[1], t), BAdd(st[2], BShl(<<1>>, st[3])), st[3] - 1, st[4]>>
     ELSE <<st[1], st[2], st[3] - 1, st[4]>>

BDivStep4(st) == Once(BDivStep(Once(BDivStep(Once(BDivStep(Once(BDivStep(st))))))))

RECURSIVE BDivLoop(_)
BDivLoop(st) ==
  IF st[3] < 0 THEN <<st[2], st[1] # <<>> >>
  ELSE BDivLoop(Once(BDivStep4(Once(BDivStep4(st)))))

BDivMod(n, d) ==
  IF BCmp(n, d) < 0 THEN <<<<>>, n # <<>> >>
  ELSE BDivLoop(Once(<<n, <<>>, BBits(n) - BBits(d), d>>))

(***************************************************************************)
(* Exact dyadic rationals [s, m, e] = (-1)^s * m * 2^e in canonical form:  *)
(* m odd, or the zero [0, <<>>, 0].  Canonical form makes numeric equality *)
(* the same as equality of records.                                        *)
(***************************************************************************)
XZero == [s |-> 0, m |-> <<>>, e |-> 0]

XCanon(s, m, e) ==
  IF m = <<>> THEN XZero
  ELSE LET z == BTz(m) IN [s |-> s, m |-> BShr(m, z), e |-> e + z]

XNeg(a) == IF a.m = <<>> THEN a ELSE [a EXCEPT !.s = 1 - a.s]

XAbs(a) == [a EXCEPT !.s = 0]

XAdd(a, b) ==
  IF a.m = <<>> THEN b
  ELSE IF b.m = <<>> THEN a
  ELSE LET e  == IF a.e < b.e THEN a.e ELSE b.e
           ma == BShl(a.m, a.e - e)
           mb == BShl(b.m, b.e - e)
           c  == BCmp(ma, mb)
       IN IF a.s = b.s THEN XCanon(a.s, BAdd(ma, mb), e)
          ELSE IF c = 0 THEN XZero
          ELSE IF c > 0 THEN XCanon(a.s, BSub(ma, mb), e)
          ELSE XCanon(b.s, BSub(mb, ma), e)

XSub(a, b) == XAdd(a, XNeg(b))

XMul(a, b) ==
  IF a.m = <<>> \/ b.m = <<>> THEN XZero
  ELSE XCanon((a.s + b.s) % 2, BMul(a.m, b.m), a.e + b.e)

\* -1, 0, 1 as a < b, a = b, a > b
XCmp(a, b) ==
  LET d == XSub(a, b)
  IN IF d.m = <<>> THEN 0 ELSE IF d.s = 1 THEN -1 ELSE 1

XLe(a, b) == XCmp(a, b) <= 0

XLt(a, b) == XCmp(a, b) < 0

\* a small integer as a dyadic
RECURSIVE NatLimbs(_)
NatLimbs(n) == IF n = 0 THEN <<>> ELSE <<n % Base>> \o NatLimbs(n \div Base)

XInt(n) == IF n < 0 THEN XCanon(1, NatLimbs(-n), 0) ELSE XCanon(0, NatLimbs(n), 0)

\* n * 2^e
XDy(n, e) == IF n < 0 THEN XCanon(1, NatLimbs(-n), e) ELSE XCanon(0, NatLimbs(n), e)

(***************************************************************************)
(* binary64: rounding to 53 significant bits, round-half-to-even.          *)
(***************************************************************************)
Mant == 53

\* (-1)^s * (m + t) * 2^e rounded, where 0 < t < 1 iff sticky
FRound(s, m, e, sticky) ==
  LET L == BBits(m)
  IN IF L <= Mant THEN XCanon(s, m, e)
     ELSE LET sh == L - Mant
              q  == BShr(m, sh)
              r  == BSub(m, BShl(q, sh))
              c  == BCmp(r, BShl(<<1>>, sh - 1))
              up == c > 0 \/ (c = 0 /\ (sticky \/ BOdd(q)))
          IN XCanon(s, IF up THEN BAdd(q, <<1>>) ELSE q, e + sh)

FRnd(a) == FRound(a.s, a.m, a.e, FALSE)

\* the result of 0/0 and of x/0
NaN == [s |-> 0, m |-> <<>>, e |-> 0, nan |-> TRUE]

IsNaN(a) == "nan" \in DOMAIN a

FAdd(a, b) == IF IsNaN(a) \/ IsNaN(b) THEN NaN ELSE FRnd(XAdd(a, b))

FSub(a, b) == IF IsNaN(a) \/ IsNaN(b) THEN NaN ELSE FRnd(XSub(a, b))

FMul(a, b) == IF IsNaN(a) \/ IsNaN(b) THEN NaN ELSE FRnd(XMul(a, b))

\* a / b: the quotient to at least Mant + 2 bits plus a sticky bit
FDiv(a, b) ==
  IF IsNaN(a) \/ IsNaN(b) \/ b.m = <<>> THEN NaN
  ELSE IF a.m = <<>> THEN XZero
  ELSE LET g  == Mant + 2 + BBits(b.m) - BBits(a.m)
           k  == IF g > 0 THEN g ELSE 0
           qr == BDivMod(BShl(a.m, k), b.m)
       IN FRound((a.s + b.s) % 2, qr[1], a.e - b.e - k, qr[2])

\* a <= b; every comparison with NaN is false
FLe(a, b) == ~IsNaN(a) /\ ~IsNaN(b) /\ XLe(a, b)

(***************************************************************************)
(* Python values                                                           *)
(***************************************************************************)
\* Optional[...]: None, or a present value
None == [isNone |-> TRUE]

Some(v) == [isNone |-> FALSE, v |-> v]

\* float(n) / an int operand of a float operation, for |n| < 2^30
float(n) == XInt(n)

(***************************************************************************)
(* State                                                                   *)
(***************************************************************************)
VARIABLES
  pc,          \* position of the current script run
  aqi,         \* argument of health_advisory
  tier,        \* Optional: the tuple health_advisory returned
  base,        \* model.forecast(steps=steps): the raw forecast
  live_aqi,    \* Optional[int]: the live index of get_live_aqi("Delhi")
  fc,          \* Optional: the array calibrated_forecast returned
  importance,  \* rf.feature_importances_, by feature
  buckets,     \* Optional: the dict source_buckets returned
  sliders,     \* the four st.slider values t, d, i, p
  impact,      \* Optional: eff, baseline, improved, status of the simulator
  marker,      \* Optional: colour and status of a Live Map marker
  token,       \* WAQI_TOKEN is configured
  response,    \* what the provider answers to the request of get_live_aqi
  fetched,     \* Optional: the outcome of a call of get_live_aqi
  sess,        \* the invocation each session is running
  now,         \* the clock, in seconds
  cache,       \* the entries of the two st.cache_data caches
  shown,       \* Optional: the live readings the latest script run displayed
  press        \* Optional: when Refresh Data was pressed, until the re-run

vars == <<pc, aqi, tier, base, live_aqi, fc, importance, buckets, sliders, impact,
          marker, token, response, fetched, sess, now, cache, shown, press>>

\* the live-data side of the program, and its state before anything ran
liveVars == <<marker, token, response, fetched, sess, now, cache, shown, press>>

NoLive ==
  /\ marker = None /\ token = FALSE /\ response = None /\ fetched = None
  /\ sess = <<>> /\ now = 0 /\ cache = None /\ shown = None /\ press = None

features == <<"PM2.5", "PM10", "NO2", "SO2", "CO", "O3">>

(***************************************************************************)
(* health_advisory                                                         *)
(***************************************************************************)
Good         == <<"Good", "Ideal air quality", "No mask needed",
                  "Perfect for outdoor activities", "#14c38e">>
Satisfactory == <<"Satisfactory", "Minor breathing discomfort", "Mask optional",
                  "Ideal for morning/evening", "#e3c84e">>
Moderate     == <<"Moderate", "Breathing discomfort", "Light mask recommended",
                  "Avoid prolonged exposure", "#f5a742">>
Poor         == <<"Poor", "Respiratory illness possible", "N95 mask essential",
                  "Limit outdoor activities", "#ef5b5b">>
VeryPoor     == <<"Very Poor", "Health impacts likely", "Strict N95 protection",
                  "Minimize outdoor time", "#8f6bf6">>
Severe       == <<"Severe", "Health emergency", "Stay indoors with purifier",
                  "Avoid all outdoor activities", "#ff0000">>

\* a plausible slip: strict comparisons, sending each boundary value upward
health_advisory_strict(a) ==
  IF XLt(a, float(50)) THEN Good
  ELSE IF XLt(a, float(100)) THEN Satisfactory
  ELSE IF XLt(a, float(200)) THEN Moderate
  ELSE IF XLt(a, float(300)) THEN Poor
  ELSE IF XLt(a, float(400)) THEN VeryPoor
  ELSE Severe

health_advisory(a) ==
  IF FLe(a, float(50)) THEN Good
  ELSE IF FLe(a, float(100)) THEN Satisfactory
  ELSE IF FLe(a, float(200)) THEN Moderate
  ELSE IF FLe(a, float(300)) THEN Poor
  ELSE IF FLe(a, float(400)) THEN VeryPoor
  ELSE Severe

(***************************************************************************)
(* calibrated_forecast: b is np.array(model.forecast(steps=steps))         *)
(***************************************************************************)
\* a plausible slip: anchoring by a ratio instead of a difference
calibrated_forecast_rescale(b, live) ==
  IF live.isNone \/ Len(b) = 0 THEN b
  ELSE LET scale == FDiv(float(live.v), b[1])
       IN [k \in 1..Len(b) |-> FMul(b[k], scale)]

\* a plausible slip: the guard on the empty forecast dropped, so that the
\* shifted branch runs and the read of base[0] raises IndexError
calibrated_forecast_unguarded(b, live) ==
  IF live.isNone THEN b
  ELSE IF Len(b) = 0 THEN <<"IndexError">>
  ELSE LET shift == FSub(float(live.v), b[1])
       IN [k \in 1..Len(b) |-> FAdd(b[k], shift)]

calibrated_forecast(b, live) ==
  IF live.isNone \/ Len(b) = 0 THEN b
  ELSE LET shift == FSub(float(live.v), b[1])
       IN [k \in 1..Len(b) |-> FAdd(b[k], shift)]

(***************************************************************************)
(* source_buckets: imp is the global importance, keyed by feature          *)
(***************************************************************************)
Traffic       == "Traffic (NO2 + CO)"
Dust          == "Dust & Stubble (PM2.5 + PM10)"
Industry      == "Industry (SO2)"
Photochemical == "Photochemical (O3)"

\* the keys of the buckets dict, in insertion order
BucketKeys == <<Traffic, Dust, Industry, Photochemical>>

\* sum(values): the start value 0 plus each value in turn
RECURSIVE sum(_, _)
sum(vals, acc) ==
  IF vals = <<>> THEN acc ELSE sum(Tail(vals), FAdd(acc, Head(vals)))

\* a plausible slip: the "or 1.0" dropped, dividing by a zero total
Normalised_unguarded(raw) ==
  LET total == sum([k \in 1..4 |-> raw[BucketKeys[k]]], float(0))
  IN [k \in DOMAIN raw |-> FMul(FDiv(raw[k], total), float(100))]

\* the dict normalised: {k: (v/total)*100 for k, v in buckets.items()}
Normalised(raw) ==
  LET s     == sum([k \in 1..4 |-> raw[BucketKeys[k]]], float(0))
      total == IF s = float(0) THEN float(1) ELSE s
  IN [k \in DOMAIN raw |-> FMul(FDiv(raw[k], total), float(100))]

\* a plausible slip: SO2 counted as traffic and CO as industry
source_buckets_swapped(imp) ==
  Normalised([k \in {Traffic, Dust, Industry, Photochemical} |->
     CASE k = Traffic       -> FAdd(imp["NO2"], imp["SO2"])
       [] k = Dust          -> FAdd(imp["PM2.5"], imp["PM10"])
       [] k = Industry      -> imp["CO"]
       [] k = Photochemical -> imp["O3"]])

\* a plausible slip: percentages of the largest bucket, not of the total
source_buckets_unnormalised(imp) ==
  [k \in {Traffic, Dust, Industry, Photochemical} |->
     CASE k = Traffic       -> FMul(FAdd(imp["NO2"], imp["CO"]), float(100))
       [] k = Dust          -> FMul(FAdd(imp["PM2.5"], imp["PM10"]), float(100))
       [] k = Industry      -> FMul(imp["SO2"], float(100))
       [] k = Photochemical -> FMul(imp["O3"], float(100))]

source_buckets(imp) ==
  Normalised([k \in {Traffic, Dust, Industry, Photochemical} |->
     CASE k = Traffic       -> FAdd(imp["NO2"], imp["CO"])
       [] k = Dust          -> FAdd(imp["PM2.5"], imp["PM10"])
       [] k = Industry      -> imp["SO2"]
       [] k = Photochemical -> imp["O3"]])

(***************************************************************************)
(* Sources & Policy page: the impact calculation                           *)
(***************************************************************************)
DefaultBaseline == 200

\* w[k] * (lever/100), with w = {k: v/100.0 for k, v in buckets.items()}
Term(bk, k, lever) ==
  FMul(FDiv(bk[k], float(100)), FDiv(float(lever), float(100)))

Eff(bk, sl) ==
  FAdd(FAdd(FAdd(Term(bk, Traffic, sl.t), Term(bk, Dust, sl.d)),
            Term(bk, Industry, sl.i)),
       Term(bk, Photochemical, sl.p))

\* a plausible slip: float(live) without the test for None, a TypeError
Baseline_unguarded(live) == IF live.isNone THEN NaN ELSE float(live.v)

Baseline(live) == IF live.isNone THEN float(DefaultBaseline) ELSE float(live.v)

\* a plausible slip: the reduction reported in place of the reduced index
ImpactOf_reduction(e, bl) ==
  LET improved == FMul(bl, e)
  IN [eff |-> e, baseline |-> bl, improved |-> improved,
      status |-> health_advisory(improved)]

ImpactOf(e, bl) ==
  LET improved == FMul(bl, FSub(float(1), e))
  IN [eff |-> e, baseline |-> bl, improved |-> improved,
      status |-> health_advisory(improved)]

\* a plausible slip: the per-bucket reductions compounded as a product
Impact_compounding(bk, sl, live) ==
  LET keep(k, lever) ==
        FSub(float(1), Term(bk, k, lever))
      e == FSub(float(1),
                FMul(FMul(FMul(keep(Traffic, sl.t), keep(Dust, sl.d)),
                          keep(Industry, sl.i)),
                     keep(Photochemical, sl.p)))
  IN ImpactOf(e, Baseline(live))

Impact(bk, sl, live) == ImpactOf(Eff(bk, sl), Baseline(live))

(***************************************************************************)
(* Inputs                                                                  *)
(***************************************************************************)
MaxAqi == 410        \* health_advisory is applied to every half-integer
                     \* of -MaxAqi .. MaxAqi
MaxSteps == 3        \* raw forecasts have 0 .. MaxSteps points
MaxWeight == 2       \* importances are 5 * (0 .. MaxWeight)

AqiInputs == {XDy(n, -1) : n \in (-2 * MaxAqi) .. (2 * MaxAqi)}

\* forecast points in tenths: 100, 110, 120 and 100.1, 110.3
RawTenths == {1000, 1100, 1200, 1001, 1103}

RawVals == {FDiv(float(n), float(10)) : n \in RawTenths}

RawForecasts == UNION {[1..n -> RawVals] : n \in 0..MaxSteps}

LiveVals == {None, Some(0), Some(130), Some(480)}

FeatureSet == {features[k] : k \in 1..Len(features)}

ImportanceVals == [FeatureSet -> {float(5 * n) : n \in 0..MaxWeight}]

\* importance vectors given in the order of features
Vec(ws) == [f \in FeatureSet |-> ws[CHOOSE k \in 1..Len(features) : features[k] = f]]

\* np.ones(len(features))/len(features), the fallback of importance
UniformImportance == [f \in FeatureSet |-> FDiv(float(1), float(Len(features)))]

PolicyImportances ==
  { UniformImportance,
    Vec([k \in 1..6 |-> float(0)]),
    Vec(<<float(10), float(10), float(5), float(5), float(5), float(5)>>),
    Vec(<<float(5), float(10), float(10), float(10), float(10), float(5)>>),
    Vec(<<float(0), FDiv(float(1), float(10)), float(3), float(1), float(0), float(0)>>) }

\* slider(label, 0, 60, default): the settings explored for every lever
SliderMin == 0
SliderMax == 60
SliderDefaults == [t |-> 20, d |-> 15, i |-> 10, p |-> 5]
SliderKeys == {"t", "d", "i", "p"}

(***************************************************************************)
(* Specifications.  Each applies one of the functions, or the page that    *)
(* uses it, to every input of its input set.                               *)
(***************************************************************************)
\* ---- health_advisory(aqi)
InitAdvisory ==
  /\ NoLive
  /\ pc = "call"
  /\ aqi \in AqiInputs
  /\ tier = None
  /\ base = <<>> /\ live_aqi = None /\ fc = None
  /\ importance = UniformImportance /\ buckets = None
  /\ sliders = SliderDefaults /\ impact = None

HealthAdvisory ==
  /\ pc = "call"
  /\ tier' = Some(health_advisory(aqi))
  /\ pc' = "done"
  /\ UNCHANGED <<aqi, base, live_aqi, fc, importance, buckets, sliders, impact>>
  /\ UNCHANGED liveVars

SpecAdvisory == InitAdvisory /\ [][HealthAdvisory]_vars

\* ---- calibrated_forecast(model, live_aqi, steps)
InitForecast ==
  /\ NoLive
  /\ pc = "call"
  /\ base \in RawForecasts
  /\ live_aqi \in LiveVals
  /\ fc = None
  /\ aqi = float(0) /\ tier = None
  /\ importance = UniformImportance /\ buckets = None
  /\ sliders = SliderDefaults /\ impact = None

CalibratedForecast ==
  /\ pc = "call"
  /\ fc' = Some(calibrated_forecast(base, live_aqi))
  /\ pc' = "done"
  /\ UNCHANGED <<aqi, tier, base, live_aqi, importance, buckets, sliders, impact>>
  /\ UNCHANGED liveVars

SpecForecast == InitForecast /\ [][CalibratedForecast]_vars

\* ---- source_buckets()
InitBuckets ==
  /\ NoLive
  /\ pc = "call"
  /\ importance \in ImportanceVals
  /\ buckets = None
  /\ aqi = float(0) /\ tier = None
  /\ base = <<>> /\ live_aqi = None /\ fc = None
  /\ sliders = SliderDefaults /\ impact = None

SourceBuckets ==
  /\ pc = "call"
  /\ buckets' = Some(source_buckets(importance))
  /\ pc' = "done"
  /\ UNCHANGED <<aqi, tier, base, live_aqi, fc, importance, sliders, impact>>
  /\ UNCHANGED liveVars

SpecBuckets == InitBuckets /\ [][SourceBuckets]_vars

\* ---- the Sources & Policy page: a script run computes the buckets and the
\* impact from the slider values; moving a slider ends the values of the
\* previous run and queues the next run
InitPolicy ==
  /\ NoLive
  /\ pc = "rerun"
  /\ importance \in PolicyImportances
  /\ live_aqi \in LiveVals
  /\ sliders = SliderDefaults
  /\ buckets = None /\ impact = None
  /\ aqi = float(0) /\ tier = None
  /\ base = <<>> /\ fc = None

RunSourcesPolicy ==
  /\ pc = "rerun"
  /\ LET bk == source_buckets(importance)
     IN /\ buckets' = Some(bk)
        /\ impact' = Some(Impact(bk, sliders, live_aqi))
  /\ pc' = "done"
  /\ UNCHANGED <<aqi, tier, base, live_aqi, fc, importance, sliders>>
  /\ UNCHANGED liveVars

MoveSlider ==
  /\ pc = "done"
  /\ \E k \in SliderKeys :
       \E v \in {SliderMin, SliderDefaults[k], SliderMax} :
        /\ v # sliders[k]
        /\ sliders' = [sliders EXCEPT ![k] = v]
  /\ buckets' = None
  /\ impact' = None
  /\ pc' = "rerun"
  /\ UNCHANGED <<aqi, tier, base, live_aqi, fc, importance>>
  /\ UNCHANGED liveVars

NextPolicy == RunSourcesPolicy \/ MoveSlider

SpecPolicy == InitPolicy /\ [][NextPolicy]_vars

(***************************************************************************)
(* Live Map: aqi_hex and the marker of a station                           *)
(***************************************************************************)
\* a plausible slip: a band edge of another scale (150) for the third colour
aqi_hex_shifted(a) ==
  IF FLe(a, float(50)) THEN "#14c38e"
  ELSE IF FLe(a, float(100)) THEN "#e3c84e"
  ELSE IF FLe(a, float(150)) THEN "#f5a742"
  ELSE IF FLe(a, float(300)) THEN "#ef5b5b"
  ELSE IF FLe(a, float(400)) THEN "#8f6bf6"
  ELSE "#ff0000"

aqi_hex(a) ==
  IF FLe(a, float(50)) THEN "#14c38e"
  ELSE IF FLe(a, float(100)) THEN "#e3c84e"
  ELSE IF FLe(a, float(200)) THEN "#f5a742"
  ELSE IF FLe(a, float(300)) THEN "#ef5b5b"
  ELSE IF FLe(a, float(400)) THEN "#8f6bf6"
  ELSE "#ff0000"

\* the state outside the live-data side, when no page of it runs
NoPage ==
  /\ aqi = float(0) /\ tier = None
  /\ base = <<>> /\ live_aqi = None /\ fc = None
  /\ importance = UniformImportance /\ buckets = None
  /\ sliders = SliderDefaults /\ impact = None

pageVars == <<aqi, tier, base, live_aqi, fc, importance, buckets, sliders, impact>>

\* ---- one turn of the marker loop: color = aqi_hex(row["AQI"]) and
\* status, _, _, _, _ = health_advisory(row["AQI"])
InitMarker ==
  /\ pc = "call"
  /\ aqi \in AqiInputs
  /\ tier = None
  /\ base = <<>> /\ live_aqi = None /\ fc = None
  /\ importance = UniformImportance /\ buckets = None
  /\ sliders = SliderDefaults /\ impact = None
  /\ NoLive

MapMarker ==
  /\ pc = "call"
  /\ marker' = Some([color |-> aqi_hex(aqi), status |-> health_advisory(aqi)[1]])
  /\ pc' = "done"
  /\ UNCHANGED <<aqi, tier, base, live_aqi, fc, importance, buckets, sliders, impact>>
  /\ UNCHANGED <<token, response, fetched, sess, now, cache, shown, press>>

SpecMarker == InitMarker /\ [][MapMarker]_vars

(***************************************************************************)
(* get_live_aqi.  The values of a decoded JSON document are tagged         *)
(* records, a text is the sequence of its characters, and a step that      *)
(* raises yields Raise(class) in place of a value.                         *)
(***************************************************************************)
JInt(n) == [t |-> "int", v |-> n]

JFloat(x) == [t |-> "float", v |-> x]

JStr(cs) == [t |-> "str", v |-> cs]

JList(xs) == [t |-> "list", v |-> xs]

JNull == [t |-> "null"]

\* a key the dict does not have
Missing == [t |-> "missing"]

Raise(e) == [raised |-> TRUE, exc |-> e]

Value(v) == [raised |-> FALSE, v |-> v]

\* the return statements: index, coordinates, and which dict goes with them
Return(a, g, info) == [raised |-> FALSE, aqi |-> a, geo |-> g, info |-> info]

DigitChars == <<"0", "1", "2", "3", "4", "5", "6", "7", "8", "9">>

IsDigit(c) == \E d \in 1..10 : DigitChars[d] = c

DigitOf(c) == (CHOOSE d \in 1..10 : DigitChars[d] = c) - 1

RECURSIVE strip(_)
strip(cs) ==
  IF cs = <<>> THEN cs
  ELSE IF Head(cs) = " " THEN strip(Tail(cs))
  ELSE IF cs[Len(cs)] = " " THEN strip(SubSeq(cs, 1, Len(cs) - 1))
  ELSE cs

\* the number a run of decimal digits writes, on top of acc
RECURSIVE DigitsValue(_, _)
DigitsValue(cs, acc) ==
  IF cs = <<>> THEN acc ELSE DigitsValue(Tail(cs), 10 * acc + DigitOf(Head(cs)))

RECURSIVE ToNat(_)
ToNat(x) == IF x = <<>> THEN 0 ELSE Head(x) + Base * ToNat(Tail(x))

\* int(text): blanks stripped, an optional sign, then decimal digits only
IntOfStr(cs) ==
  LET w == strip(cs)
      signed == w # <<>> /\ Head(w) \in {"+", "-"}
      ds == IF signed THEN Tail(w) ELSE w
  IN IF ds = <<>> \/ \E k \in 1..Len(ds) : ~IsDigit(ds[k])
     THEN Raise("ValueError")
     ELSE IF signed /\ Head(w) = "-" THEN Value(-DigitsValue(ds, 0))
     ELSE Value(DigitsValue(ds, 0))

\* int(float): the fraction is dropped, rounding toward zero
IntOfFloat(x) ==
  IF IsNaN(x) THEN Raise("ValueError")
  ELSE LET mag == IF x.e >= 0 THEN ToNat(BShl(x.m, x.e)) ELSE ToNat(BShr(x.m, -x.e))
       IN Value(IF x.s = 1 THEN -mag ELSE mag)

int(x) ==
  IF x.t = "int" THEN Value(x.v)
  ELSE IF x.t = "float" THEN IntOfFloat(x.v)
  ELSE IF x.t = "str" THEN IntOfStr(x.v)
  ELSE Raise("TypeError")

\* float(text) for plain decimal text: blanks stripped, an optional sign,
\* digits with at most one point; the nearest binary64 to digits / 10^places
FloatOfStr(cs) ==
  LET w == strip(cs)
      signed == w # <<>> /\ Head(w) \in {"+", "-"}
      body == IF signed THEN Tail(w) ELSE w
      points == {k \in 1..Len(body) : body[k] = "."}
      ds == SelectSeq(body, IsDigit)
      places == IF points = {} THEN 0
                ELSE Len(body) - (CHOOSE k \in points : TRUE)
  IN IF ds = <<>> \/ Cardinality(points) > 1 \/ Len(ds) + Cardinality(points) # Len(body)
     THEN Raise("ValueError")
     ELSE LET q == FDiv(XInt(DigitsValue(ds, 0)), XInt(10 ^ places))
          IN Value(IF signed /\ Head(w) = "-" THEN XNeg(q) ELSE q)

float_of(x) ==
  IF x.t = "int" THEN Value(float(x.v))
  ELSE IF x.t = "float" THEN Value(x.v)
  ELSE IF x.t = "str" THEN FloatOfStr(x.v)
  ELSE Raise("TypeError")

\* lat, lon = geo: a list or a text of exactly two items unpacks
Unpack2(g) ==
  IF g.t = "list"
  THEN IF Len(g.v) = 2 THEN Value(g.v) ELSE Raise("ValueError")
  ELSE IF g.t = "str"
  THEN IF Len(g.v) = 2 THEN Value(<<JStr(<<g.v[1]>>), JStr(<<g.v[2]>>)>>)
       ELSE Raise("ValueError")
  ELSE Raise("TypeError")

\* The provider's answer: the request or its decoding raises, or a document
\* arrives.  A document that is a dict is [t |-> "dict", status, hasData,
\* aqi, geo], with Missing for a key it lacks.
Failure(e) == [kind |-> "raises", exc |-> e]

Document(b) == [kind |-> "json", body |-> b]

Dict(st, d, a, g) == [t |-> "dict", status |-> st, hasData |-> d, aqi |-> a, geo |-> g]

\* line 186, once lat, lon and int(aqi) are there: float(lon), then return
ReturnParsed(a, lat, lon) ==
  IF lon.raised THEN lon
  ELSE Return(Some(a), Some(<<lat, lon.v>>), "res")

\* line 186: int(aqi), float(lat), float(lon), evaluated left to right
ParseLat(a, lat, g) ==
  IF lat.raised THEN lat ELSE ReturnParsed(a, lat.v, float_of(g[2]))

ParseAqi(a, g) ==
  IF a.raised THEN a ELSE ParseLat(a.v, float_of(g[1]), g)

\* line 185, then line 186
ParseGeo(u, a) ==
  IF u.raised THEN u ELSE ParseAqi(int(a), u.v)

\* lines 182-186, res being the decoded document
ParseBody(res) ==
  IF res.t # "dict" THEN Raise("AttributeError")
  ELSE IF res.status # "ok" THEN Return(None, None, "res")
  ELSE IF ~res.hasData \/ res.aqi = Missing \/ res.geo = Missing THEN Raise("KeyError")
  ELSE ParseGeo(Unpack2(res.geo), res.aqi)

\* lines 181-186, the body of the try statement
TryBody(resp) ==
  IF resp.kind = "raises" THEN Raise(resp.exc) ELSE ParseBody(resp.body)

\* what requests.get(...).json() raises
RequestErrors == {"ConnectionError", "Timeout", "JSONDecodeError"}

\* a plausible slip: except requests.RequestException, which lets the
\* errors of parsing through
ExceptionClasses_requests == RequestErrors

\* the classes "except Exception" catches: every class a step above raises
ExceptionClasses ==
  RequestErrors \cup {"AttributeError", "KeyError", "TypeError", "ValueError"}

\* lines 187-188: the outcome r of the try body, past the except clause
Except(r) ==
  IF r.raised /\ r.exc \in ExceptionClasses
  THEN Return(None, None, "error")
  ELSE r

get_live_aqi(tok, resp) ==
  IF ~tok THEN Return(None, None, "empty") ELSE Except(TryBody(resp))

\* ---- the answers a call is tried on
Text152 == <<"1", "5", "2">>

AqiFields ==
  { JInt(152), JFloat(XDy(305, -1)), JStr(Text152), JStr(<<" ", "8", "7">>),
    JStr(<<"-">>), JStr(<<>>), JNull, Missing }

GoodAqiFields ==
  { JInt(152), JFloat(XDy(305, -1)), JStr(Text152), JStr(<<" ", "8", "7">>) }

Lat == XDy(229, -3)

Lon == XDy(309, -2)

GeoFields ==
  { JList(<<JFloat(Lat), JFloat(Lon)>>),
    JList(<<JInt(28), JInt(77)>>),
    JList(<<JStr(<<"2", "8", ".", "6">>), JStr(<<"7", "7", ".", "2">>)>>),
    JStr(<<"2", "8">>),
    JList(<<JFloat(Lat), JNull>>),
    JList(<<JFloat(Lat)>>),
    JList(<<JStr(<<"n", "/", "a">>), JFloat(Lon)>>),
    JNull, Missing }

GoodGeoFields ==
  { JList(<<JFloat(Lat), JFloat(Lon)>>),
    JList(<<JInt(28), JInt(77)>>),
    JList(<<JStr(<<"2", "8", ".", "6">>), JStr(<<"7", "7", ".", "2">>)>>),
    JStr(<<"2", "8">>) }

Responses ==
  {Failure(e) : e \in RequestErrors}
    \cup {Document(JList(<<>>)), Document(JNull)}
    \cup {Document(Dict(st, FALSE, Missing, Missing)) : st \in {"error", "ok", "missing"}}
    \cup {Document(Dict("error", TRUE, a, g)) : a \in {JInt(152)}, g \in GeoFields}
    \cup {Document(Dict("ok", TRUE, a, g)) : a \in AqiFields, g \in GeoFields}

\* ---- one call of get_live_aqi
InitFetch ==
  /\ pc = "call"
  /\ token \in BOOLEAN
  /\ response \in Responses
  /\ fetched = None
  /\ NoPage
  /\ marker = None /\ sess = <<>> /\ now = 0 /\ cache = None
  /\ shown = None /\ press = None

GetLiveAqi ==
  /\ pc = "call"
  /\ fetched' = Some(get_live_aqi(token, response))
  /\ pc' = "done"
  /\ UNCHANGED pageVars
  /\ UNCHANGED <<marker, token, response, sess, now, cache, shown, press>>

SpecFetch == InitFetch /\ [][GetLiveAqi]_vars

(***************************************************************************)
(* Concurrent sessions.  Each session runs the script in a thread of its   *)
(* own; the models (base, importance) and the caches are shared.  An       *)
(* invocation first reads what it uses of the shared state into locals and *)
(* then computes on the locals.                                            *)
(***************************************************************************)
MaxSessions == 2

Sessions == 1..MaxSessions

Idle == [pc |-> "idle", call |-> None, local |-> None, ret |-> None]

Calls ==
  { [fn |-> "health_advisory", aqi |-> float(50)],
    [fn |-> "health_advisory", aqi |-> float(480)],
    [fn |-> "calibrated_forecast", live |-> Some(130)],
    [fn |-> "source_buckets"],
    [fn |-> "policy", sl |-> SliderDefaults, live |-> None] }

SessionImportances ==
  { UniformImportance,
    Vec(<<float(10), float(10), float(5), float(5), float(5), float(5)>>) }

Tenths(n) == FDiv(float(n), float(10))

SessionForecasts ==
  { <<Tenths(1000), Tenths(1100), Tenths(1200)>>, <<Tenths(1001), Tenths(1103)>> }

\* the first statement of the invocation: the argument, model.forecast(...),
\* dict(zip(features, importance)), or buckets = source_buckets()
Enter(c, imp, b) ==
  IF c.fn = "health_advisory" THEN c.aqi
  ELSE IF c.fn = "calibrated_forecast" THEN b
  ELSE IF c.fn = "source_buckets" THEN imp
  ELSE source_buckets(imp)

\* the rest of the invocation, on its locals
Complete(c, local) ==
  IF c.fn = "health_advisory" THEN health_advisory(local)
  ELSE IF c.fn = "calibrated_forecast" THEN calibrated_forecast(local, c.live)
  ELSE IF c.fn = "source_buckets" THEN source_buckets(local)
  ELSE Impact(local, c.sl, c.live)

InitSessions ==
  /\ pc = "serving"
  /\ importance \in SessionImportances
  /\ base \in SessionForecasts
  /\ sess = [s \in Sessions |-> Idle]
  /\ aqi = float(0) /\ tier = None /\ live_aqi = None /\ fc = None
  /\ buckets = None /\ sliders = SliderDefaults /\ impact = None
  /\ marker = None /\ token = FALSE /\ response = None /\ fetched = None
  /\ now = 0 /\ cache = None /\ shown = None /\ press = None

Invoke(s) ==
  /\ sess[s].pc = "idle"
  /\ \E c \in Calls :
       sess' = [sess EXCEPT ![s] = [pc |-> "running", call |-> Some(c),
                                    local |-> Some(Enter(c, importance, base)),
                                    ret |-> None]]
  /\ UNCHANGED <<pc, aqi, tier, base, live_aqi, fc, importance, buckets, sliders, impact>>
  /\ UNCHANGED <<marker, token, response, fetched, now, cache, shown, press>>

\* a plausible slip: source_buckets scaling the shared importance in place
Finish_inplace(s) ==
  /\ sess[s].pc = "running"
  /\ sess' = [sess EXCEPT ![s].pc = "returned",
                          ![s].ret = Some(Complete(sess[s].call.v, sess[s].local.v))]
  /\ importance' =
       IF sess[s].call.v.fn = "source_buckets"
       THEN [f \in FeatureSet |-> FDiv(importance[f], float(40))]
       ELSE importance
  /\ UNCHANGED <<pc, aqi, tier, base, live_aqi, fc, buckets, sliders, impact>>
  /\ UNCHANGED <<marker, token, response, fetched, now, cache, shown, press>>

Finish(s) ==
  /\ sess[s].pc = "running"
  /\ sess' = [sess EXCEPT ![s].pc = "returned",
                          ![s].ret = Some(Complete(sess[s].call.v, sess[s].local.v))]
  /\ UNCHANGED <<pc, aqi, tier, base, live_aqi, fc, importance, buckets, sliders, impact>>
  /\ UNCHANGED <<marker, token, response, fetched, now, cache, shown, press>>

NextSessions == \E s \in Sessions : Invoke(s) \/ Finish(s)

SpecSessions == InitSessions /\ [][NextSessions]_vars

(***************************************************************************)
(* The two st.cache_data caches and the pages that show live readings.     *)
(* An entry of get_live_aqi's cache is what the call returned for a city;  *)
(* the entry of get_ncr_points' cache is the DataFrame it returned.  Both  *)
(* carry the moment they were stored (at); a row also carries the moment   *)
(* its reading was asked of the provider (asked).                          *)
(***************************************************************************)
TTL == 600

\* the clock moves in thirds of the cache window
TickLen == TTL \div 3

MaxTicks == 5

Cities == <<"Delhi", "Noida", "Gurgaon", "Ghaziabad", "Faridabad">>

CitySet == {Cities[k] : k \in 1..Len(Cities)}

Pages == {"Overview", "Forecast", "Sources & Policy", "Live Map", "About"}

\* the index the provider reports for the k-th city at time t: it differs
\* from city to city and changes with every tick
Reading(k, t) == 100 + 20 * k + t \div TickLen

\* what the provider answers for city c at time t, when it is up or not
AnswerOf(c, t, up) ==
  IF up
  THEN Document(Dict("ok", TRUE,
                     JInt(Reading(CHOOSE k \in 1..Len(Cities) : Cities[k] = c, t)),
                     JList(<<JFloat(Lat), JFloat(Lon)>>)))
  ELSE Failure("Timeout")

EmptyCache == [live |-> [c \in CitySet |-> None], ncr |-> None]

\* ttl=600: an entry is served while it is younger than the window
Fresh(e, t) == ~e.isNone /\ t - e.v.at < TTL

\* the entry of a result r of get_live_aqi stored at time t
Entry(r, t) == Some([aqi |-> r.aqi, geo |-> r.geo, at |-> t])

\* the cache after get_live_aqi(c) at time t, up[c] telling the provider's state
LiveCalled(ch, c, up, t) ==
  IF Fresh(ch.live[c], t) THEN ch
  ELSE [ch EXCEPT !.live[c] = Entry(get_live_aqi(token, AnswerOf(c, t, up[c])), t)]

\* rows.append({"City": c, "AQI": aqi, "lat": geo[0], "lon": geo[1]})
RowsOf(lv) ==
  LET Present(c) == lv[c].v.aqi # None /\ lv[c].v.geo # None
      cs == SelectSeq(Cities, Present)
  IN [k \in 1..Len(cs) |->
        [City |-> cs[k], AQI |-> lv[cs[k]].v.aqi.v,
         lat |-> lv[cs[k]].v.geo.v[1], lon |-> lv[cs[k]].v.geo.v[2],
         asked |-> lv[cs[k]].v.at]]

\* the caches once get_ncr_points has made its calls, lv being the entries of
\* get_live_aqi then, and has returned its DataFrame at time t
NcrStored(lv, t) == [live |-> lv, ncr |-> Some([rows |-> RowsOf(lv), at |-> t])]

\* the cache after get_ncr_points() at time t
NcrCalled(ch, up, t) ==
  IF Fresh(ch.ncr, t) THEN ch
  ELSE NcrStored([c \in CitySet |-> LiveCalled(ch, c, up, t).live[c]], t)

MainPages == {"Overview", "Forecast", "Sources & Policy"}

StationPages == {"Overview", "Live Map"}

\* the cache after a script run of page p
AfterStations(p, ch, up, t) ==
  IF p \in StationPages THEN NcrCalled(ch, up, t) ELSE ch

AfterRun(p, ch, up, t) ==
  AfterStations(p, IF p \in MainPages THEN LiveCalled(ch, "Delhi", up, t) ELSE ch, up, t)

\* the cities a script run of page p asks the provider about: those whose
\* get_live_aqi entry it needs and does not find
Asked(p, ch, t) ==
  {c \in CitySet :
     /\ ~Fresh(ch.live[c], t)
     /\ \/ p \in MainPages /\ c = "Delhi"
        \/ p \in StationPages /\ ~Fresh(ch.ncr, t)}

\* the provider answering every city but those of the set down
UpBut(down) == [c \in CitySet |-> c \notin down]

\* the live readings the run of page p displays, out of the cache it leaves
Display(p, ch, t) ==
  [page |-> p, time |-> t,
   main |-> IF p \in MainPages THEN ch.live["Delhi"] ELSE None,
   rows |-> IF p \in StationPages THEN ch.ncr.v.rows ELSE <<>>]

\* entries past the window are gone
Purge(ch, t) ==
  [live |-> [c \in CitySet |-> IF Fresh(ch.live[c], t) THEN ch.live[c] ELSE None],
   ncr |-> IF Fresh(ch.ncr, t) THEN ch.ncr ELSE None]

InitLive ==
  /\ pc = "start"
  /\ token \in BOOLEAN
  /\ now = 0
  /\ cache = EmptyCache
  /\ shown = None
  /\ press = None
  /\ marker = None /\ response = None /\ fetched = None /\ sess = <<>>
  /\ NoPage

\* a script run of page p: the first run, a page picked in the sidebar, or
\* a widget of the page changed
Render(p) ==
  /\ \E down \in SUBSET Asked(p, cache, now) :
       cache' = AfterRun(p, cache, UpBut(down), now)
  /\ shown' = Some(Display(p, cache', now))
  /\ pc' = p
  /\ press' = None
  /\ UNCHANGED <<token, now, marker, response, fetched, sess>>
  /\ UNCHANGED pageVars

\* a plausible slip: get_live_aqi.clear() in place of st.cache_data.clear()
PressRefresh_live_only ==
  /\ pc = "Overview"
  /\ \E down \in SUBSET Asked("Overview", [cache EXCEPT !.live = EmptyCache.live], now) :
       cache' = AfterRun("Overview", [cache EXCEPT !.live = EmptyCache.live], UpBut(down), now)
  /\ shown' = Some(Display("Overview", cache', now))
  /\ press' = Some(now)
  /\ UNCHANGED <<pc, token, now, marker, response, fetched, sess>>
  /\ UNCHANGED pageVars

\* Refresh Data: st.cache_data.clear(), then st.rerun() runs the page again
PressRefresh ==
  /\ pc = "Overview"
  /\ \E down \in SUBSET Asked("Overview", EmptyCache, now) :
       cache' = AfterRun("Overview", EmptyCache, UpBut(down), now)
  /\ shown' = Some(Display("Overview", cache', now))
  /\ press' = Some(now)
  /\ UNCHANGED <<pc, token, now, marker, response, fetched, sess>>
  /\ UNCHANGED pageVars

\* time passes; what is on screen is no longer the output of a run just made
Tick ==
  /\ now < MaxTicks * TickLen
  /\ now' = now + TickLen
  /\ cache' = Purge(cache, now')
  /\ shown' = None
  /\ press' = None
  /\ UNCHANGED <<pc, token, marker, response, fetched, sess>>
  /\ UNCHANGED pageVars

NextLive == (\E p \in Pages : Render(p)) \/ PressRefresh \/ Tick

SpecLive == InitLive /\ [][NextLive]_vars

(***************************************************************************)
(* Properties                                                              *)
(***************************************************************************)
\* |x - y| <= 2^(-k) * |z|, in exact arithmetic
Within(x, y, k, z) == XLe(XAbs(XSub(x, y)), XMul(XDy(1, -k), XAbs(z)))

\* the four percentages added as real numbers / as floats, left to right
ExactSum(bk) ==
  XAdd(XAdd(XAdd(bk[Traffic], bk[Dust]), bk[Industry]), bk[Photochemical])

FloatSum(bk) ==
  FAdd(FAdd(FAdd(bk[Traffic], bk[Dust]), bk[Industry]), bk[Photochemical])

ZeroImportance == [f \in FeatureSet |-> float(0)]

ExampleImportance ==
  Vec(<<float(10), float(10), float(5), float(5), float(5), float(5)>>)

AllSliders(v) == [t |-> v, d |-> v, i |-> v, p |-> v]

\* C1: health_advisory returns, for every aqi, the one tier whose interval
\* (-inf,50], (50,100], (100,200], (200,300], (300,400], (400,inf) holds aqi:
\* the tier is fixed by how many of the thresholds lie strictly below aqi, so
\* that 50, 100, 200, 300 and 400 belong to the lower tier.
C1_TierByInterval ==
  pc = "done" =>
    LET below == Cardinality({th \in {50, 100, 200, 300, 400} : XLt(XInt(th), aqi)})
    IN /\ ~tier.isNone
       /\ tier.v = <<Good, Satisfactory, Moderate, Poor, VeryPoor, Severe>>[below + 1]

C1_Witness ==
  /\ pc = "done"
  /\ aqi = XInt(400)
  /\ tier = Some(VeryPoor)

\* C2: with the live index absent, or with an empty raw forecast, the result
\* of calibrated_forecast is the raw forecast itself.
C2_UnchangedWhenAbsentOrEmpty ==
  (pc = "done" /\ (live_aqi = None \/ Len(base) = 0)) => fc = Some(base)

C2_Witness ==
  /\ pc = "done"
  /\ base = <<>>
  /\ live_aqi = Some(130)
  /\ fc = Some(<<>>)

\* C3 as stated: for a non-empty raw forecast and a present live index the
\* result has the same length, out[k] is the real number
\* raw[k] + (live - raw[0]), the first element is the live index, and every
\* difference out[k] - out[j] is the real number raw[k] - raw[j].
C3_ExactShift ==
  (pc = "done" /\ live_aqi # None /\ Len(base) > 0) =>
    LET out == fc.v
        L   == XInt(live_aqi.v)
    IN /\ Len(out) = Len(base)
       /\ \A k \in 1..Len(base) : out[k] = XAdd(base[k], XSub(L, base[1]))
       /\ out[1] = L
       /\ \A k, j \in 1..Len(base) : XSub(out[k], out[j]) = XSub(base[k], base[j])

\* C3 amended: the result has the same length and out[k] lies within
\* 2^-52 * (|raw[k]| + |live - raw[0]|) of the real number
\* raw[k] + (live - raw[0]).
C3_ShiftUpToRounding ==
  (pc = "done" /\ live_aqi # None /\ Len(base) > 0) =>
    LET out == fc.v
        L   == XInt(live_aqi.v)
    IN /\ Len(out) = Len(base)
       /\ \A k \in 1..Len(base) :
            Within(out[k], XAdd(base[k], XSub(L, base[1])), 52,
                   XAdd(XAbs(base[k]), XAbs(XSub(L, base[1]))))

C3_Witness ==
  /\ pc = "done"
  /\ base = <<XInt(100), XInt(110), XInt(120)>>
  /\ live_aqi = Some(130)
  /\ fc = Some(<<XInt(130), XInt(140), XInt(150)>>)

C5_SumExactly100 ==
  (pc = "done" /\ importance # ZeroImportance) =>
    /\ \A k \in DOMAIN buckets.v : XLe(XZero, buckets.v[k])
    /\ \/ ExactSum(buckets.v) = XInt(100)
       \/ FloatSum(buckets.v) = XInt(100)

\* C5 amended: the four percentages are non-negative and sum to 100 within
\* floating-point tolerance: the real sum and the float sum are both within
\* 100 * 2^-49 of 100.
C5_SumWithinTolerance ==
  (pc = "done" /\ importance # ZeroImportance) =>
    /\ \A k \in DOMAIN buckets.v : XLe(XZero, buckets.v[k])
    /\ Within(ExactSum(buckets.v), XInt(100), 49, XInt(100))
    /\ Within(FloatSum(buckets.v), XInt(100), 49, XInt(100))

C5_Witness ==
  /\ pc = "done"
  /\ importance = [f \in FeatureSet |-> IF f \in {"SO2", "CO", "O3"} THEN XInt(5) ELSE XZero]
  /\ buckets.v[Dust] = XZero
  /\ FloatSum(buckets.v) # XInt(100)

\* C6: with all six weights zero source_buckets divides by 1, not by 0, and
\* every bucket is 0 (no NaN, no division error).
C6_AllZeroWeights ==
  (pc = "done" /\ importance = ZeroImportance) =>
    buckets = Some([k \in {Traffic, Dust, Industry, Photochemical} |-> XZero])

C6_Witness ==
  /\ pc = "done"
  /\ importance = ZeroImportance
  /\ ~buckets.isNone
  /\ \A k \in DOMAIN buckets.v : ~IsNaN(buckets.v[k]) /\ buckets.v[k] = XZero

\* C7: eff is the sum over the four buckets of
\* (bucketPercentage/100) * (leverPercent/100), the projected index is
\* baseline * (1 - eff), and the reported tier is that of the projected
\* index.
C7_AdditiveImpact ==
  pc = "done" =>
    LET bk == buckets.v
        frac(n) == FDiv(XInt(n), XInt(100))
        share(k) == FDiv(bk[k], XInt(100))
        e  == FAdd(FAdd(FAdd(FMul(share(Traffic), frac(sliders.t)),
                             FMul(share(Dust), frac(sliders.d))),
                        FMul(share(Industry), frac(sliders.i))),
                   FMul(share(Photochemical), frac(sliders.p)))
        projected == FMul(impact.v.baseline, FSub(XInt(1), e))
    IN /\ impact.v.eff = e
       /\ impact.v.improved = projected
       /\ impact.v.status = health_advisory(projected)

C7_Witness ==
  /\ pc = "done"
  /\ importance = ExampleImportance
  /\ sliders = [t |-> 60, d |-> 0, i |-> 60, p |-> 0]
  /\ live_aqi = Some(480)
  /\ impact.v.status = VeryPoor

\* C8: with all four levers at 0 the projected index is the baseline itself,
\* whatever the bucket weights.
C8_ZeroLeversKeepBaseline ==
  (pc = "done" /\ sliders = AllSliders(0)) =>
    impact.v.improved = (IF live_aqi = None THEN XInt(200) ELSE XInt(live_aqi.v))

C8_Witness ==
  /\ pc = "done"
  /\ sliders = AllSliders(0)
  /\ importance = ZeroImportance
  /\ live_aqi = Some(480)
  /\ impact.v.improved = XInt(480)

\* C9 as stated: with all four levers at 60 and percentages that sum to 100
\* (as real numbers and as floats) the projected index is 0.4 * baseline
\* exactly (the real number 2/5 * baseline, or the float product
\* 0.4 * baseline).
C9_ExactlyFourTenths ==
  (/\ pc = "done"
   /\ sliders = AllSliders(60)
   /\ ExactSum(buckets.v) = XInt(100)
   /\ FloatSum(buckets.v) = XInt(100)) =>
    \/ XMul(XInt(5), impact.v.improved) = XMul(XInt(2), impact.v.baseline)
    \/ impact.v.improved = FMul(FDiv(XInt(4), XInt(10)), impact.v.baseline)

\* C9 amended: with all four levers at 60 and percentages that sum to 100
\* (as real numbers or as floats) the projected index is 0.4 * baseline up
\* to rounding: within 2^-48 * 0.4 * baseline of it.
C9_FourTenthsUpToRounding ==
  (/\ pc = "done"
   /\ sliders = AllSliders(60)
   /\ \/ ExactSum(buckets.v) = XInt(100)
      \/ FloatSum(buckets.v) = XInt(100)) =>
    Within(XMul(XInt(5), impact.v.improved), XMul(XInt(2), impact.v.baseline),
           48, XMul(XInt(2), impact.v.baseline))

C9_Witness ==
  /\ pc = "done"
  /\ sliders = AllSliders(60)
  /\ importance = ExampleImportance
  /\ ExactSum(buckets.v) = XInt(100)
  /\ live_aqi = None
  /\ XLt(XInt(80), impact.v.improved)
  /\ XLt(impact.v.improved, XDy(163841, -11))

\* C10 as stated: eff lies in [0, 0.6] and the projected index in
\* [0.4 * baseline, baseline] (0.6 and 0.4 read as the real numbers 3/5 and
\* 2/5, or 0.4 * baseline as the float product if that is smaller).
C10_AtMostSixtyPercent ==
  pc = "done" =>
    LET e  == impact.v.eff
        bl == impact.v.baseline
        x  == impact.v.improved
    IN /\ XLe(XZero, e)
       /\ XLe(XMul(XInt(5), e), XInt(3))
       /\ \/ XLe(XMul(XInt(2), bl), XMul(XInt(5), x))
          \/ XLe(FMul(FDiv(XInt(4), XInt(10)), bl), x)
       /\ XLe(x, bl)

\* C10 amended: eff lies in [0, 0.6 * (1 + 2^-49)] and the projected index in
\* [0.4 * baseline * (1 - 2^-48), baseline]: never an increase, and a
\* reduction beyond 60% only by rounding error.
C10_SixtyPercentUpToRounding ==
  pc = "done" =>
    LET e  == impact.v.eff
        bl == impact.v.baseline
        x  == impact.v.improved
    IN /\ XLe(XZero, e)
       /\ XLe(XMul(XInt(5), e), XMul(XInt(3), XAdd(XInt(1), XDy(1, -49))))
       /\ XLe(XMul(XMul(XInt(2), bl), XSub(XInt(1), XDy(1, -48))), XMul(XInt(5), x))
       /\ XLe(x, bl)

C10_Witness ==
  /\ pc = "done"
  /\ sliders = AllSliders(60)
  /\ live_aqi = Some(480)
  /\ XLt(XInt(3), XMul(XInt(5), impact.v.eff))
  /\ XLt(impact.v.improved, XInt(192))

\* C11: the baseline of the simulator is the live Delhi index when there is
\* one and 200 when there is none, and with no live index the run still ends
\* with a projected index and a tier.
C11_BaselineLiveOrDefault ==
  pc = "done" =>
    /\ ~impact.isNone
    /\ live_aqi # None => impact.v.baseline = XInt(live_aqi.v)
    /\ live_aqi = None =>
         /\ impact.v.baseline = XInt(200)
         /\ ~IsNaN(impact.v.improved)
         /\ impact.v.status \in {Good, Satisfactory, Moderate, Poor, VeryPoor}

C11_Witness ==
  /\ pc = "done"
  /\ live_aqi = None
  /\ sliders = SliderDefaults
  /\ impact.v.baseline = XInt(200)
  /\ impact.v.status = Moderate

\* The tiers from best to worst, and the place of a tier among them.
TierOrder == <<Good, Satisfactory, Moderate, Poor, VeryPoor, Severe>>

TierRank(t) == CHOOSE k \in 1..6 : TierOrder[k] = t

\* The projected index of the current run with lever k set to v instead.
ImprovedWith(k, v) ==
  Impact(buckets.v, [sliders EXCEPT ![k] = v], live_aqi).improved

\* C14: the tier of the projected index is never higher than the tier of the
\* baseline, and setting one lever higher with the others held fixed never
\* gives a higher projected index.
C14_NeverWorseAndMonotone ==
  pc = "done" =>
    /\ TierRank(impact.v.status) <= TierRank(health_advisory(impact.v.baseline))
    /\ \A k \in SliderKeys : \A v \in {SliderDefaults[k], SliderMax} :
         v > sliders[k] => XLe(ImprovedWith(k, v), impact.v.improved)

C14_Witness ==
  /\ pc = "done"
  /\ live_aqi = Some(480)
  /\ sliders = [t |-> 60, d |-> 15, i |-> 10, p |-> 5]
  /\ TierRank(impact.v.status) < TierRank(health_advisory(impact.v.baseline))
  /\ XLt(ImprovedWith("d", 60), impact.v.improved)

\* C15: the colour aqi_hex gives a station's marker is the colour field of
\* health_advisory for the same index, so the marker's colour and its status
\* label belong to one tier.
C15_MarkerColourIsTierColour ==
  pc = "done" /\ ~marker.isNone =>
    /\ marker.v.color = health_advisory(aqi)[5]
    /\ \A k \in 1..6 :
         TierOrder[k][5] = marker.v.color <=> TierOrder[k][1] = marker.v.status

C15_Witness ==
  /\ pc = "done"
  /\ aqi = float(200)
  /\ marker = Some([color |-> "#f5a742", status |-> "Moderate"])

\* C12: get_live_aqi raises nothing.  With no token, with a status other
\* than "ok", and when the request or the parsing raises, it returns no index
\* and no coordinates; it returns an index only for an "ok" answer whose aqi
\* and geo fields both parse, and then it returns the coordinates too.
C12_NeverRaises ==
  pc = "done" =>
    LET r == fetched.v
        parsed == /\ token
                  /\ response.kind = "json"
                  /\ response.body.t = "dict"
                  /\ response.body.status = "ok"
                  /\ response.body.hasData
                  /\ response.body.aqi \in GoodAqiFields
                  /\ response.body.geo \in GoodGeoFields
    IN /\ ~r.raised
       /\ r.aqi = None <=> r.geo = None
       /\ r.aqi # None <=> parsed
       /\ r.aqi # None => r.aqi.v \in {152, 87}

C12_Witness ==
  /\ pc = "done"
  /\ token
  /\ response = Document(Dict("ok", TRUE, JStr(<<"-">>), JList(<<JFloat(Lat), JFloat(Lon)>>)))
  /\ fetched = Some(Return(None, None, "error"))

\* what an invocation returns when it runs with no other invocation under way
RunAlone(c, imp, b) ==
  IF c.fn = "health_advisory" THEN health_advisory(c.aqi)
  ELSE IF c.fn = "calibrated_forecast" THEN calibrated_forecast(b, c.live)
  ELSE IF c.fn = "source_buckets" THEN source_buckets(imp)
  ELSE Impact(source_buckets(imp), c.sl, c.live)

C16_MainCardIsDelhiRow ==
  ~shown.isNone /\ shown.v.page = "Overview" /\ shown.v.main.v.aqi # None =>
    \A k \in 1..Len(shown.v.rows) :
      shown.v.rows[k].City = "Delhi" => shown.v.rows[k].AQI = shown.v.main.v.aqi.v

\* C17: every live reading a run displays, the Delhi index of the main card,
\* the forecast anchor and the simulator baseline and every row of the
\* station list and the map, was asked of the provider at most 600 seconds
\* before the run.
C17_AtMostOneWindowOld ==
  ~shown.isNone =>
    /\ ~shown.v.main.isNone /\ shown.v.main.v.aqi # None =>
         shown.v.time - shown.v.main.v.at <= TTL
    /\ \A k \in 1..Len(shown.v.rows) :
         shown.v.time - shown.v.rows[k].asked <= TTL

\* C18: the run that follows a press of Refresh Data starts from two empty
\* caches, so what it shows, an absent index included, and every entry it
\* leaves in the caches was asked of the provider no earlier than the press.
C18_FreshAfterRefresh ==
  ~press.isNone =>
    /\ ~shown.isNone
    /\ shown.v.page = "Overview"
    /\ shown.v.main.v.at >= press.v
    /\ \A k \in 1..Len(shown.v.rows) : shown.v.rows[k].asked >= press.v
    /\ shown.v.rows = cache.ncr.v.rows
    /\ cache.ncr.v.at >= press.v
    /\ \A c \in CitySet : ~cache.live[c].isNone /\ cache.live[c].v.at >= press.v

C18_Witness ==
  /\ ~press.isNone
  /\ press.v = 2 * TickLen
  /\ token
  /\ shown.v.main.v.aqi = None
  /\ Len(shown.v.rows) = 4
  /\ shown.v.rows[1].City = "Noida"
  /\ shown.v.rows[1].asked = press.v

====
